---- MODULE Spec2Model ----
(***************************************************************************)
(* Model of the SQL-backed session store (sqlstore.go, carried in          *)
(* src/go.mod after the module header) and of its expiration sweeper       *)
(* (src/cleanup.go).                                                       *)
(*                                                                         *)
(* The table is a function from identifiers to rows.  Every store          *)
(* operation is one database statement plus local computation, so each is  *)
(* one action.  The sweeper goroutine and the caller of Close are          *)
(* processes with a program counter; the two unbuffered channels are       *)
(* modelled as rendezvous steps.                                           *)
(***************************************************************************)
EXTENDS Integers, Sequences, FiniteSets, TLC

\* ---------------------------------------------------------------- bounds
MaxTime == 2          \* the clock runs over 0..MaxTime
MaxCloses == 2        \* number of Close calls of the application
MaxSweepers == 2      \* number of sweeper goroutines that can be spawned

Handlers == {"h1"}
\* the random keys securecookie.GenerateRandomKey(32) returns, in order
KeyPool == {1}
Sweepers == 1..MaxSweepers

\* --------------------------------------------------------- configuration
cfgMaxAge == 1              \* Options.MaxAge
cfgEmptyDataAge == 1        \* Options.EmptyDataAge
cfgKeyPrefix == ""          \* Options.KeyPrefix (unspecified)
DefaultMaxAge == 86400 * 30 \* engine.DefaultMaxAge
EngineEmptyDataAge == 2     \* engine.EmptyDataAge (stand-in, unused: cfgEmptyDataAge > 0)
CookieMaxAges == {-1, 0, 2} \* ctx.CookieOptions().MaxAge of a request

maxAge == cfgMaxAge
emptyDataAge == IF cfgEmptyDataAge <= 0 THEN EngineEmptyDataAge ELSE cfgEmptyDataAge
keyPrefix == IF Len(cfgKeyPrefix) = 0 THEN "_" ELSE cfgKeyPrefix

SessionName == "sess"

\* ----------------------------------------------------------- value maps
kCreated == keyPrefix \o "created"
kModified == keyPrefix \o "modified"
kExpires == keyPrefix \o "expires"
MetaKeys == {kCreated, kModified, kExpires}
UserKeys == {"k"}
\* "fn" stands for a value gob cannot encode (a func or chan)
UserVals == {"v", "fn"}
KeyOrder == <<kCreated, kExpires, kModified, "k">>

EmptyMap == [k \in {} |-> 0]

\* the deletes without the one for the modified key
StripMetaKeepsModified(v) == [k \in (DOMAIN v) \ {kCreated, kExpires} |-> v[k]]

\* delete(session.Values, key) for the three metadata keys
StripMeta(v) == [k \in (DOMAIN v) \ MetaKeys |-> v[k]]

\* the entries of a value map outside the three metadata keys
NonMeta(v) == [k \in (DOMAIN v) \ MetaKeys |-> v[k]]

\* securecookie.Gob.Serialize: a header followed by the entries in key order
Serialize(v) ==
  IF \E k \in (DOMAIN v) \cap UserKeys : v[k] = "fn"
  THEN [err |-> "gob", bytes |-> <<>>]
  ELSE LET ks == SelectSeq(KeyOrder, LAMBDA k : k \in DOMAIN v)
       IN [err |-> "nil",
           bytes |-> <<"gob">> \o [i \in 1..Len(ks) |-> <<ks[i], v[ks[i]]>>]]

\* securecookie.Gob.Deserialize into an existing map: gob adds and
\* overwrites entries of the destination, it does not clear it
Deserialize(bytes, dst) ==
  IF Len(bytes) = 0 \/ bytes[1] # "gob"
  THEN [err |-> "gob", Values |-> dst]
  ELSE LET n == Len(bytes)
           ks == {bytes[i][1] : i \in 2..n}
           val(k) == (CHOOSE i \in 2..n : bytes[i][1] = k)
       IN [err |-> "nil",
           Values |-> [k \in (DOMAIN dst) \cup ks |->
                         IF k \in ks THEN bytes[val(k)][2] ELSE dst[k]]]

\* sessions.EmptyGobSize()
EmptyGobSize == Len(Serialize(EmptyMap).bytes)

\* -------------------------------------------------------------- cookies
\* securecookie.EncodeMulti / DecodeMulti: the token carries the name, the
\* identifier and a MAC over both
Mac(name, id) == <<"hmac", name, id>>
Token(name, id) == <<name, id, Mac(name, id)>>

\* the lengths Options.KeyPairs can have: no key at all, or one hash key
KeyPairCounts == {0, 1}

\* with an empty codec list both calls fail ("no codecs provided")
EncodeMulti(name, id, ncodecs) ==
  IF ncodecs = 0
  THEN [err |-> "encode", value |-> <<>>]
  ELSE [err |-> "nil", value |-> Token(name, id)]
ForgedCookie(id) == <<SessionName, id, <<"forged", SessionName, id>>>>
DecodeMulti(name, value, ncodecs) ==
  IF ncodecs = 0 THEN [err |-> "decode", id |-> <<>>]
  ELSE IF value[1] = name /\ value[3] = Mac(name, value[2])
  THEN [err |-> "nil", id |-> value[2]]
  ELSE [err |-> "decode", id |-> <<>>]

NoCookie == [set |-> FALSE, value |-> <<>>, maxAge |-> 0]

\* ---------------------------------------------------------------- state
VARIABLES
  now,        \* time.Now().Unix()
  table,      \* the session table: identifier -> row
  nextId,     \* index of the next random key GenerateRandomKey returns
  sess,       \* per handler: the *sessions.Session it holds
  ret,        \* per handler: outcome of its last store call
  resp,       \* per handler: response cookie set on its context
  jar,        \* identifiers for which a cookie was handed to a client
  codecs,     \* len(SQLStore.Codecs), fixed at construction
  persisted,  \* history: identifiers for which a row has been written
  dbClosed,   \* db.Close() was called
  once,       \* sync.Once of the store
  quiteC,     \* SQLStore.quiteC (0 = nil, n = quit channel of sweeper n)
  doneC,      \* SQLStore.doneC  (0 = nil, n = done channel of sweeper n)
  nSw,        \* number of sweeper goroutines spawned
  sw,         \* per sweeper: position of its goroutine
  closer,     \* position of the goroutine calling Close
  closes,     \* number of Close calls that returned
  stopped     \* handles for which StopCleanup has returned

vars == <<now, table, nextId, sess, ret, resp, jar, codecs, persisted,
          dbClosed, once, quiteC, doneC, nSw, sw, closer, closes, stopped>>

storeVars == <<table, nextId, sess, ret, resp, jar, codecs, persisted>>
sweepVars == <<once, quiteC, doneC, nSw, sw, closer, closes, stopped>>

NoSession == [live |-> FALSE, ID |-> <<>>, IsNew |-> FALSE, Values |-> EmptyMap]
NoRet == [op |-> "none", err |-> "nil", loadErr |-> "none", stmt |-> "none",
          cm |-> 0, gen |-> FALSE]

Init ==
  /\ now = 0
  /\ table = EmptyMap
  /\ nextId = 1
  /\ sess = [h \in Handlers |-> NoSession]
  /\ ret = [h \in Handlers |-> NoRet]
  /\ resp = [h \in Handlers |-> NoCookie]
  /\ jar = {}
  /\ codecs \in KeyPairCounts
  /\ persisted = {}
  /\ dbClosed = FALSE
  /\ once = FALSE
  /\ quiteC = 0
  /\ doneC = 0
  /\ nSw = 0
  /\ sw = [s \in Sweepers |-> "idle"]
  /\ closer = [pc |-> "idle", quit |-> 0, done |-> 0]
  /\ closes = 0
  /\ stopped = {}

\* ------------------------------------------------------ store operations
\* SQLStore.MaxAge
MaxAge(cm) ==
  IF cm = 0
  THEN IF maxAge > 0 THEN maxAge ELSE DefaultMaxAge
  ELSE cm

\* REPLACE INTO table(id, data, created, modified, expires)
Replace(tbl, id, row) ==
  [x \in (DOMAIN tbl) \cup {id} |-> IF x = id THEN row ELSE tbl[x]]

\* DELETE FROM table WHERE id = ?
DeleteRow(tbl, id) == [x \in (DOMAIN tbl) \ {id} |-> tbl[x]]

\* load with the expiry test moved after the Deserialize call
loadDeserializesFirst(s, tbl, t, closed) ==
  IF closed THEN [err |-> "closed", Values |-> s.Values]
  ELSE IF s.ID \notin DOMAIN tbl THEN [err |-> "ErrNoRows", Values |-> s.Values]
  ELSE LET d == Deserialize(tbl[s.ID].data, s.Values)
       IN IF d.err # "nil" THEN [err |-> d.err, Values |-> d.Values]
          ELSE IF tbl[s.ID].expires < t
          THEN [err |-> "ErrSessionExpired", Values |-> d.Values]
          ELSE [err |-> "nil",
                Values |-> [k \in (DOMAIN d.Values) \cup MetaKeys |->
                              IF k = kCreated THEN tbl[s.ID].created
                              ELSE IF k = kModified THEN tbl[s.ID].modified
                              ELSE IF k = kExpires THEN tbl[s.ID].expires
                              ELSE d.Values[k]]]

\* SQLStore.load
load(s, tbl, t, closed) ==
  IF closed THEN [err |-> "closed", Values |-> s.Values]
  ELSE IF s.ID \notin DOMAIN tbl THEN [err |-> "ErrNoRows", Values |-> s.Values]
  ELSE IF tbl[s.ID].expires < t
       THEN [err |-> "ErrSessionExpired", Values |-> s.Values]
  ELSE LET d == Deserialize(tbl[s.ID].data, s.Values)
       IN IF d.err # "nil" THEN [err |-> d.err, Values |-> d.Values]
          ELSE [err |-> "nil",
                Values |-> [k \in (DOMAIN d.Values) \cup MetaKeys |->
                              IF k = kCreated THEN tbl[s.ID].created
                              ELSE IF k = kModified THEN tbl[s.ID].modified
                              ELSE IF k = kExpires THEN tbl[s.ID].expires
                              ELSE d.Values[k]]]

\* insert that serializes a fresh map instead of session.Values
insertDropsValues(s, cm, tbl, t, closed) ==
  LET createdAt == IF kCreated \in DOMAIN s.Values THEN s.Values[kCreated] ELSE t
      modifiedAt == createdAt
      expiredAt == IF kExpires \in DOMAIN s.Values
                   THEN s.Values[kExpires] ELSE t + MaxAge(cm)
      vals == StripMeta(s.Values)
      enc == Serialize(EmptyMap)
  IN IF closed
     THEN [err |-> "closed", Values |-> vals, stmt |-> "insert", table |-> tbl]
     ELSE [err |-> "nil", Values |-> vals, stmt |-> "insert",
           table |-> Replace(tbl, s.ID,
                       [data |-> enc.bytes, created |-> createdAt,
                        modified |-> modifiedAt, expires |-> expiredAt])]

\* SQLStore.insert
insert(s, cm, tbl, t, closed) ==
  LET createdAt == IF kCreated \in DOMAIN s.Values THEN s.Values[kCreated] ELSE t
      modifiedAt == createdAt
      expiredAt == IF kExpires \in DOMAIN s.Values
                   THEN s.Values[kExpires] ELSE t + MaxAge(cm)
      vals == StripMeta(s.Values)
      enc == Serialize(vals)
  IN IF enc.err # "nil"
     THEN [err |-> enc.err, Values |-> vals, stmt |-> "none", table |-> tbl]
     ELSE IF closed
     THEN [err |-> "closed", Values |-> vals, stmt |-> "insert", table |-> tbl]
     ELSE [err |-> "nil", Values |-> vals, stmt |-> "insert",
           table |-> Replace(tbl, s.ID,
                       [data |-> enc.bytes, created |-> createdAt,
                        modified |-> modifiedAt, expires |-> expiredAt])]

\* save that issues the UPDATE whatever session.IsNew says
saveAlwaysUpdate(s, cm, tbl, t, closed) ==
  LET createdAt == IF kCreated \in DOMAIN s.Values THEN s.Values[kCreated] ELSE t
      expiresTs == t + MaxAge(cm)
      expiredAt == IF kExpires \in DOMAIN s.Values
                   THEN IF s.Values[kExpires] < expiresTs
                        THEN expiresTs ELSE s.Values[kExpires]
                   ELSE expiresTs
      vals == StripMeta(s.Values)
      enc == Serialize(vals)
  IN IF enc.err # "nil"
     THEN [err |-> enc.err, Values |-> vals, stmt |-> "none", table |-> tbl]
     ELSE IF closed
     THEN [err |-> "closed", Values |-> vals, stmt |-> "update", table |-> tbl]
     ELSE [err |-> "nil", Values |-> vals, stmt |-> "update",
           table |-> IF s.ID \in DOMAIN tbl
                     THEN [tbl EXCEPT ![s.ID] =
                             [data |-> enc.bytes, created |-> createdAt,
                              modified |-> @.modified, expires |-> expiredAt]]
                     ELSE tbl]

\* SQLStore.save
save(s, cm, tbl, t, closed) ==
  IF s.IsNew THEN insert(s, cm, tbl, t, closed)
  ELSE
  LET createdAt == IF kCreated \in DOMAIN s.Values THEN s.Values[kCreated] ELSE t
      expiresTs == t + MaxAge(cm)
      expiredAt == IF kExpires \in DOMAIN s.Values
                   THEN IF s.Values[kExpires] < expiresTs
                        THEN expiresTs ELSE s.Values[kExpires]
                   ELSE expiresTs
      vals == StripMeta(s.Values)
      enc == Serialize(vals)
  IN IF enc.err # "nil"
     THEN [err |-> enc.err, Values |-> vals, stmt |-> "none", table |-> tbl]
     ELSE IF closed
     THEN [err |-> "closed", Values |-> vals, stmt |-> "update", table |-> tbl]
     ELSE [err |-> "nil", Values |-> vals, stmt |-> "update",
           table |-> IF s.ID \in DOMAIN tbl
                     THEN [tbl EXCEPT ![s.ID] =
                             [data |-> enc.bytes, created |-> createdAt,
                              modified |-> @.modified, expires |-> expiredAt]]
                     ELSE tbl]

\* Remove without the test for an empty identifier
RemoveOpNoEmptyTest(id, tbl, closed) ==
  IF closed THEN [err |-> "closed", stmt |-> "delete", table |-> tbl]
  ELSE [err |-> "nil", stmt |-> "delete", table |-> DeleteRow(tbl, id)]

\* SQLStore.Remove
RemoveOp(id, tbl, closed) ==
  IF Len(id) = 0 THEN [err |-> "nil", stmt |-> "none", table |-> tbl]
  ELSE IF closed THEN [err |-> "closed", stmt |-> "delete", table |-> tbl]
  ELSE [err |-> "nil", stmt |-> "delete", table |-> DeleteRow(tbl, id)]

\* SQLStore.Delete
DeleteOp(s, tbl, closed) ==
  LET r == RemoveOp(s.ID, tbl, closed)
  IN [sess |-> [s EXCEPT !.Values = EmptyMap],
      err |-> r.err, stmt |-> r.stmt, table |-> r.table,
      setCookie |-> TRUE,
      cookie |-> [set |-> TRUE, value |-> <<>>, maxAge |-> -1],
      gen |-> FALSE]

\* Save without the test for a negative cookie max-age
SaveOpNoDeleteOnNegative(s, cm, tbl, t, closed, nid, ncodecs) ==
  LET gen == Len(s.ID) = 0
      s1 == IF gen THEN [s EXCEPT !.ID = <<nid>>] ELSE s
      w == IF gen THEN insert(s1, cm, tbl, t, closed)
                  ELSE save(s1, cm, tbl, t, closed)
      s2 == [s1 EXCEPT !.Values = w.Values]
      encoded == EncodeMulti(SessionName, s2.ID, ncodecs)
  IN IF w.err # "nil"
     THEN [sess |-> s2, err |-> w.err, stmt |-> w.stmt, table |-> w.table,
           setCookie |-> FALSE, cookie |-> NoCookie, gen |-> gen]
     ELSE IF encoded.err # "nil"
     THEN [sess |-> s2, err |-> encoded.err, stmt |-> w.stmt, table |-> w.table,
           setCookie |-> FALSE, cookie |-> NoCookie, gen |-> gen]
     ELSE [sess |-> s2, err |-> "nil", stmt |-> w.stmt, table |-> w.table,
           setCookie |-> TRUE,
           cookie |-> [set |-> TRUE, value |-> encoded.value, maxAge |-> 0],
           gen |-> gen]

\* Save that sets the cookie before it looks at the outcome of the write
SaveOpSetsCookieFirst(s, cm, tbl, t, closed, nid, ncodecs) ==
  IF cm < 0 THEN DeleteOp(s, tbl, closed)
  ELSE
  LET gen == Len(s.ID) = 0
      s1 == IF gen THEN [s EXCEPT !.ID = <<nid>>] ELSE s
      w == IF gen THEN insert(s1, cm, tbl, t, closed)
                  ELSE save(s1, cm, tbl, t, closed)
      s2 == [s1 EXCEPT !.Values = w.Values]
      encoded == EncodeMulti(SessionName, s2.ID, ncodecs)
  IN IF encoded.err # "nil"
     THEN [sess |-> s2, err |-> encoded.err, stmt |-> w.stmt, table |-> w.table,
           setCookie |-> FALSE, cookie |-> NoCookie, gen |-> gen]
     ELSE [sess |-> s2, err |-> w.err, stmt |-> w.stmt, table |-> w.table,
           setCookie |-> TRUE,
           cookie |-> [set |-> TRUE, value |-> encoded.value, maxAge |-> 0],
           gen |-> gen]

\* SQLStore.Save
SaveOp(s, cm, tbl, t, closed, nid, ncodecs) ==
  IF cm < 0 THEN DeleteOp(s, tbl, closed)
  ELSE
  LET gen == Len(s.ID) = 0
      s1 == IF gen THEN [s EXCEPT !.ID = <<nid>>] ELSE s
      w == IF gen THEN insert(s1, cm, tbl, t, closed)
                  ELSE save(s1, cm, tbl, t, closed)
      s2 == [s1 EXCEPT !.Values = w.Values]
      encoded == EncodeMulti(SessionName, s2.ID, ncodecs)
  IN IF w.err # "nil"
     THEN [sess |-> s2, err |-> w.err, stmt |-> w.stmt, table |-> w.table,
           setCookie |-> FALSE, cookie |-> NoCookie, gen |-> gen]
     ELSE IF encoded.err # "nil"
     THEN [sess |-> s2, err |-> encoded.err, stmt |-> w.stmt, table |-> w.table,
           setCookie |-> FALSE, cookie |-> NoCookie, gen |-> gen]
     ELSE [sess |-> s2, err |-> "nil", stmt |-> w.stmt, table |-> w.table,
           setCookie |-> TRUE,
           cookie |-> [set |-> TRUE, value |-> encoded.value, maxAge |-> 0],
           gen |-> gen]

\* New that absorbs sql.ErrNoRows only
NewOpAbsorbsNoRowsOnly(value, tbl, t, closed, ncodecs) ==
  LET session == [live |-> TRUE, ID |-> <<>>, IsNew |-> TRUE, Values |-> EmptyMap]
  IN IF Len(value) = 0
     THEN [sess |-> session, err |-> "nil", loadErr |-> "none", stmt |-> "none"]
     ELSE LET d == DecodeMulti(SessionName, value, ncodecs)
          IN IF d.err # "nil"
             THEN [sess |-> session, err |-> d.err, loadErr |-> "none",
                   stmt |-> "none"]
             ELSE LET s1 == [session EXCEPT !.ID = d.id]
                      l == load(s1, tbl, t, closed)
                  IN [sess |-> [s1 EXCEPT !.Values = l.Values,
                                          !.IsNew = (l.err # "nil")],
                      err |-> IF l.err = "ErrNoRows" THEN "nil" ELSE l.err,
                      loadErr |-> l.err, stmt |-> "select"]

\* New that goes on to load after a failed DecodeMulti
NewOpLoadsAfterDecodeError(value, tbl, t, closed, ncodecs) ==
  LET session == [live |-> TRUE, ID |-> <<>>, IsNew |-> TRUE, Values |-> EmptyMap]
  IN IF Len(value) = 0
     THEN [sess |-> session, err |-> "nil", loadErr |-> "none", stmt |-> "none"]
     ELSE LET d == DecodeMulti(SessionName, value, ncodecs)
              s1 == [session EXCEPT !.ID = value[2]]
              l == load(s1, tbl, t, closed)
          IN [sess |-> [s1 EXCEPT !.Values = l.Values,
                                  !.IsNew = (l.err # "nil")],
              err |-> IF l.err \in {"ErrNoRows", "ErrSessionExpired"}
                      THEN d.err ELSE l.err,
              loadErr |-> l.err, stmt |-> "select"]

\* SQLStore.New
NewOp(value, tbl, t, closed, ncodecs) ==
  LET session == [live |-> TRUE, ID |-> <<>>, IsNew |-> TRUE, Values |-> EmptyMap]
  IN IF Len(value) = 0
     THEN [sess |-> session, err |-> "nil", loadErr |-> "none", stmt |-> "none"]
     ELSE LET d == DecodeMulti(SessionName, value, ncodecs)
          IN IF d.err # "nil"
             THEN [sess |-> session, err |-> d.err, loadErr |-> "none",
                   stmt |-> "none"]
             ELSE LET s1 == [session EXCEPT !.ID = d.id]
                      l == load(s1, tbl, t, closed)
                  IN [sess |-> [s1 EXCEPT !.Values = l.Values,
                                          !.IsNew = (l.err # "nil")],
                      err |-> IF l.err \in {"ErrNoRows", "ErrSessionExpired"}
                              THEN "nil" ELSE l.err,
                      loadErr |-> l.err, stmt |-> "select"]

\* SQLStore.Reload
ReloadOp(s, tbl, t, closed) ==
  LET l == load(s, tbl, t, closed)
  IN [sess |-> [s EXCEPT !.Values = l.Values,
                         !.IsNew = IF l.err = "nil" THEN FALSE ELSE @],
      err |-> IF l.err \in {"ErrNoRows", "ErrSessionExpired"}
              THEN "nil" ELSE l.err,
      loadErr |-> l.err, stmt |-> "select"]

\* the cookie values a client can send: none, a forged one, or one issued
RequestCookies ==
  {<<>>} \cup {ForgedCookie(<<i>>) : i \in KeyPool}
         \cup {Token(SessionName, id) : id \in jar}

\* ------------------------------------------------------- handler actions
Reload(h) ==
  /\ sess[h].live
  /\ LET r == ReloadOp(sess[h], table, now, dbClosed)
     IN /\ sess' = [sess EXCEPT ![h] = r.sess]
        /\ ret' = [ret EXCEPT ![h] = [op |-> "Reload", err |-> r.err,
                                      loadErr |-> r.loadErr, stmt |-> r.stmt,
                                      cm |-> 0, gen |-> FALSE]]
  /\ UNCHANGED <<now, table, nextId, resp, jar, codecs, persisted, dbClosed>>
  /\ UNCHANGED sweepVars

\* the application writes session.Values[k] = v
SetValue(h, k, v) ==
  /\ sess[h].live
  /\ sess' = [sess EXCEPT ![h].Values =
                [x \in (DOMAIN @) \cup {k} |-> IF x = k THEN v ELSE @[x]]]
  /\ sess'[h] # sess[h]
  /\ UNCHANGED <<now, table, nextId, ret, resp, jar, codecs, persisted,
                 dbClosed>>
  /\ UNCHANGED sweepVars

\* the write statement of a Save with outcome r succeeded on a row: an
\* INSERT that returned no error, or an UPDATE that matched the row
RowWritten(r, cm, tbl) ==
  /\ cm >= 0
  /\ r.err \in {"nil", "encode"}
  /\ \/ r.stmt = "insert"
     \/ r.stmt = "update" /\ r.sess.ID \in DOMAIN tbl

Save(h, cm) ==
  /\ sess[h].live
  /\ (cm >= 0 /\ Len(sess[h].ID) = 0) => nextId \in KeyPool
  /\ LET r == SaveOp(sess[h], cm, table, now, dbClosed, nextId, codecs)
     IN /\ sess' = [sess EXCEPT ![h] = r.sess]
        /\ table' = r.table
        /\ nextId' = IF r.gen THEN nextId + 1 ELSE nextId
        /\ ret' = [ret EXCEPT ![h] = [op |-> "Save", err |-> r.err,
                                      loadErr |-> "none", stmt |-> r.stmt,
                                      cm |-> cm, gen |-> r.gen]]
        /\ resp' = IF r.setCookie THEN [resp EXCEPT ![h] = r.cookie] ELSE resp
        /\ jar' = IF r.setCookie /\ cm >= 0 THEN jar \cup {r.sess.ID} ELSE jar
        /\ persisted' = IF RowWritten(r, cm, table)
                        THEN persisted \cup {r.sess.ID} ELSE persisted
  /\ UNCHANGED <<now, codecs, dbClosed>>
  /\ UNCHANGED sweepVars

Delete(h) ==
  /\ sess[h].live
  /\ LET r == DeleteOp(sess[h], table, dbClosed)
     IN /\ sess' = [sess EXCEPT ![h] = r.sess]
        /\ table' = r.table
        /\ ret' = [ret EXCEPT ![h] = [op |-> "Delete", err |-> r.err,
                                      loadErr |-> "none", stmt |-> r.stmt,
                                      cm |-> 0, gen |-> FALSE]]
        /\ resp' = [resp EXCEPT ![h] = r.cookie]
  /\ UNCHANGED <<now, nextId, jar, codecs, persisted, dbClosed>>
  /\ UNCHANGED sweepVars

Remove(id) ==
  /\ table' = RemoveOp(id, table, dbClosed).table
  /\ UNCHANGED <<now, nextId, sess, ret, resp, jar, codecs, persisted,
                 dbClosed>>
  /\ UNCHANGED sweepVars

\* the clock advances by one second
Tick ==
  /\ now < MaxTime
  /\ now' = now + 1
  /\ UNCHANGED <<dbClosed>>
  /\ UNCHANGED storeVars
  /\ UNCHANGED sweepVars

\* ------------------------------------------------------------- sweeper
\* the rows "DELETE FROM table WHERE expires < now" removes
ExpiredRows(tbl, t) == {id \in DOMAIN tbl : tbl[id].expires < t}

\* the rows gcEmptyDataSQL followed by now - emptyDataAge would remove
EmptyStaleRows(tbl, t) ==
  {id \in DOMAIN tbl : /\ Len(tbl[id].data) = EmptyGobSize
                        /\ tbl[id].created < t - emptyDataAge}

\* SQLStore.deleteExpired: one Exec of the delete-by-expiry statement
deleteExpired(tbl, t, closed) ==
  IF closed THEN [err |-> "closed", table |-> tbl]
  ELSE [err |-> "nil",
        table |-> [id \in (DOMAIN tbl) \ ExpiredRows(tbl, t) |-> tbl[id]]]

\* Init that calls init on every call, without the sync.Once
InitNoGate ==
  IF nSw < MaxSweepers
  THEN /\ once' = TRUE
       /\ nSw' = nSw + 1
       /\ sw' = [sw EXCEPT ![nSw + 1] = "select"]
       /\ quiteC' = nSw + 1
       /\ doneC' = nSw + 1
  ELSE UNCHANGED <<once, nSw, sw, quiteC, doneC>>

\* SQLStore.Init / SQLStore.init / SQLStore.Cleanup.  Under the one-time
\* gate the handles are nil when init runs, so its closeCleanup does nothing.
InitOnce ==
  IF ~once /\ nSw < MaxSweepers
  THEN /\ once' = TRUE
       /\ nSw' = nSw + 1
       /\ sw' = [sw EXCEPT ![nSw + 1] = "select"]
       /\ quiteC' = nSw + 1
       /\ doneC' = nSw + 1
  ELSE UNCHANGED <<once, nSw, sw, quiteC, doneC>>

\* SQLStore.Get: Init, then the session registry of the request context
\* calls SQLStore.New
Get(h, value) ==
  /\ InitOnce
  /\ LET r == NewOp(value, table, now, dbClosed, codecs)
     IN /\ sess' = [sess EXCEPT ![h] = r.sess]
        /\ ret' = [ret EXCEPT ![h] = [op |-> "New", err |-> r.err,
                                      loadErr |-> r.loadErr, stmt |-> r.stmt,
                                      cm |-> 0, gen |-> FALSE]]
  /\ resp' = [resp EXCEPT ![h] = NoCookie]
  /\ UNCHANGED <<now, table, nextId, jar, codecs, persisted, dbClosed>>
  /\ UNCHANGED <<closer, closes, stopped>>

\* cleanup: case <-ticker.C
SweeperTick(s) ==
  /\ sw[s] = "select"
  /\ sw' = [sw EXCEPT ![s] = "sweep"]
  /\ UNCHANGED <<now, dbClosed, once, quiteC, doneC, nSw, closer, closes,
                 stopped>>
  /\ UNCHANGED storeVars

\* cleanup that returns when a sweep pass fails
AfterSweepReturnsOnError(err) == IF err # "nil" THEN "exited" ELSE "select"

\* cleanup after a sweep pass: a non-nil error goes to log.Printf
AfterSweep(err) == IF err # "nil" THEN "log" ELSE "select"

\* cleanup: err := m.deleteExpired(), log it if non-nil, back to the select
SweeperDeleteExpired(s) ==
  /\ sw[s] = "sweep"
  /\ LET r == deleteExpired(table, now, dbClosed)
     IN /\ table' = r.table
        /\ sw' = [sw EXCEPT ![s] = AfterSweep(r.err)]
  /\ UNCHANGED <<now, nextId, sess, ret, resp, jar, codecs, persisted,
                 dbClosed>>
  /\ UNCHANGED <<once, quiteC, doneC, nSw, closer, closes, stopped>>

\* cleanup: log.Printf of the sweep error, then back to the select
SweeperLog(s) ==
  /\ sw[s] = "log"
  /\ sw' = [sw EXCEPT ![s] = "select"]
  /\ UNCHANGED <<now, dbClosed, once, quiteC, doneC, nSw, closer, closes, stopped>>
  /\ UNCHANGED storeVars

\* SQLStore.Close: close the statements and the handle, then closeCleanup
Close ==
  /\ closer.pc = "idle"
  /\ closes < MaxCloses
  /\ dbClosed' = TRUE
  /\ IF quiteC # 0 /\ doneC # 0
     THEN /\ closer' = [pc |-> "sendQuit", quit |-> quiteC, done |-> doneC]
          /\ UNCHANGED closes
     ELSE /\ closes' = closes + 1
          /\ UNCHANGED closer
  /\ UNCHANGED <<now, once, quiteC, doneC, nSw, sw, stopped>>
  /\ UNCHANGED storeVars

\* StopCleanup that returns without the receive on done
AfterQuitNoWait(c) == [c EXCEPT !.pc = "return"]

\* StopCleanup after its send on quit was received: wait on done
AfterQuit(c) == [c EXCEPT !.pc = "recvDone"]

\* StopCleanup: quit <- struct{}{} meets cleanup: case <-quit
RecvQuit(s) ==
  /\ sw[s] = "select"
  /\ closer.pc = "sendQuit"
  /\ closer.quit = s
  /\ sw' = [sw EXCEPT ![s] = "sendDone"]
  /\ closer' = AfterQuit(closer)
  /\ UNCHANGED <<now, dbClosed, once, quiteC, doneC, nSw, closes, stopped>>
  /\ UNCHANGED storeVars

\* cleanup: done <- struct{}{} meets StopCleanup: <-done; the goroutine returns
SendDone(s) ==
  /\ sw[s] = "sendDone"
  /\ closer.pc = "recvDone"
  /\ closer.done = s
  /\ sw' = [sw EXCEPT ![s] = "exited"]
  /\ closer' = [closer EXCEPT !.pc = "return"]
  /\ UNCHANGED <<now, dbClosed, once, quiteC, doneC, nSw, closes, stopped>>
  /\ UNCHANGED storeVars

\* StopCleanup, closeCleanup and Close return to the caller
CloseReturn ==
  /\ closer.pc = "return"
  /\ closer' = [closer EXCEPT !.pc = "idle"]
  /\ closes' = closes + 1
  /\ stopped' = stopped \cup {closer.quit}
  /\ UNCHANGED <<now, dbClosed, once, quiteC, doneC, nSw, sw>>
  /\ UNCHANGED storeVars

Next ==
  \/ \E h \in Handlers : Reload(h)
  \/ \E h \in Handlers : \E k \in UserKeys : \E v \in UserVals : SetValue(h, k, v)
  \/ \E h \in Handlers : \E cm \in CookieMaxAges : Save(h, cm)
  \/ \E h \in Handlers : Delete(h)
  \/ \E id \in {<<>>} \cup jar : Remove(id)
  \/ Tick
  \/ \E h \in Handlers : \E c \in RequestCookies : Get(h, c)
  \/ \E s \in Sweepers : SweeperTick(s)
  \/ \E s \in Sweepers : SweeperDeleteExpired(s)
  \/ \E s \in Sweepers : SweeperLog(s)
  \/ Close
  \/ \E s \in Sweepers : RecvQuit(s)
  \/ \E s \in Sweepers : SendDone(s)
  \/ CloseReturn

\* the scheduler runs a goroutine that can take a step; a select whose quit
\* case is ready again and again eventually takes it
Fairness ==
  /\ WF_vars(\E s \in Sweepers : SweeperDeleteExpired(s))
  /\ WF_vars(\E s \in Sweepers : SweeperLog(s))
  /\ SF_vars(\E s \in Sweepers : RecvQuit(s))
  /\ WF_vars(\E s \in Sweepers : SendDone(s))
  /\ WF_vars(CloseReturn)

Spec == Init /\ [][Next]_vars

LiveSpec == Spec /\ Fairness
\* ----------------------------------------------------------------- claims
\* the row of identifier id exists and is past its expiry
RowExpired(id) == ~dbClosed /\ id \in DOMAIN table /\ table[id].expires < now

\* the row of identifier id is missing
RowMissing(id) == ~dbClosed /\ id \notin DOMAIN table

\* the identifier a request cookie decodes to (<<>> when it does not decode)
CookieId(c) == IF Len(c) = 0 THEN <<>> ELSE DecodeMulti(SessionName, c, codecs).id

\* the clock values a row can be read at
Times == 0..MaxTime

\* C1: a Save of a session with an empty identifier that succeeds (cookie
\* max-age >= 0) leaves the session with a non-empty identifier, and a load
\* by that identifier at any time up to the row's expiry succeeds and yields
\* the saved value map on every key outside the three metadata keys.
C1_SaveLoadRoundTrip ==
  [][\A h \in Handlers : \A cm \in CookieMaxAges :
       (Save(h, cm) /\ cm >= 0 /\ Len(sess[h].ID) = 0 /\ ret'[h].err = "nil")
       => /\ Len(sess'[h].ID) > 0
          /\ sess'[h].ID \in DOMAIN table'
          /\ \A t \in Times :
               (now <= t /\ t <= table'[sess'[h].ID].expires)
               => LET l == load([sess'[h] EXCEPT !.Values = EmptyMap],
                                table', t, dbClosed')
                  IN /\ l.err = "nil"
                     /\ NonMeta(l.Values) = NonMeta(sess[h].Values)]_vars

\* a generated identifier was saved with a user value and the row is live
C1_Witness ==
  \E h \in Handlers :
    /\ ret[h].op = "Save" /\ ret[h].gen /\ ret[h].err = "nil"
    /\ "k" \in DOMAIN sess[h].Values
    /\ sess[h].ID \in DOMAIN table
    /\ table[sess[h].ID].expires >= now
    /\ Len(table[sess[h].ID].data) > EmptyGobSize

\* C2: of two consecutive successful Saves of one session under the same
\* effective max-age, the second never leaves the row with a smaller expires
\* than the first one stored.
C2_ExpiresNeverDecreases ==
  [][\A h \in Handlers : \A cm \in CookieMaxAges :
       (/\ Save(h, cm) /\ cm >= 0 /\ ret'[h].err = "nil"
        /\ ret[h].op = "Save" /\ ret[h].err = "nil" /\ ret[h].cm >= 0
        /\ MaxAge(ret[h].cm) = MaxAge(cm)
        /\ sess[h].ID \in DOMAIN table
        /\ sess[h].ID \in DOMAIN table')
       => table'[sess[h].ID].expires >= table[sess[h].ID].expires]_vars

\* C3: a load of an identifier whose row is past its expiry reports
\* ErrSessionExpired, leaves the table as it is and adds nothing to the
\* session's value map.
C3_LoadExpired ==
  [][\A h \in Handlers :
       /\ \A c \in RequestCookies :
            (Get(h, c) /\ Len(CookieId(c)) > 0 /\ RowExpired(CookieId(c)))
            => /\ ret'[h].loadErr = "ErrSessionExpired"
               /\ table' = table
               /\ sess'[h].Values = EmptyMap
       /\ (Reload(h) /\ RowExpired(sess[h].ID))
            => /\ ret'[h].loadErr = "ErrSessionExpired"
               /\ table' = table
               /\ sess'[h].Values = sess[h].Values]_vars

\* a load met an expired row that carries a payload, and the row is still there
C3_Witness ==
  \E h \in Handlers :
    /\ ret[h].loadErr = "ErrSessionExpired"
    /\ sess[h].ID \in DOMAIN table
    /\ table[sess[h].ID].expires < now
    /\ Len(table[sess[h].ID].data) > EmptyGobSize
    /\ DOMAIN sess[h].Values = {}

\* C4: New with a cookie that decodes to an identifier whose row is missing
\* or expired returns an is-new session with an empty value map and a nil
\* error, Reload returns nil there too, and any other load error is returned
\* as it is.
C4_NewAbsorbsNotFoundAndExpired ==
  [][\A h \in Handlers :
       /\ \A c \in RequestCookies :
            (Get(h, c) /\ Len(CookieId(c)) > 0
             /\ (RowMissing(CookieId(c)) \/ RowExpired(CookieId(c))))
            => /\ sess'[h].IsNew
               /\ sess'[h].Values = EmptyMap
               /\ ret'[h].err = "nil"
       /\ (Reload(h) /\ (RowMissing(sess[h].ID) \/ RowExpired(sess[h].ID)))
            => ret'[h].err = "nil"
       /\ (/\ ret'[h].op \in {"New", "Reload"}
           /\ ret'[h].loadErr \notin {"none", "nil", "ErrNoRows", "ErrSessionExpired"})
            => ret'[h].err = ret'[h].loadErr]_vars

\* New decoded a cookie whose row was gone (or expired), and absorbed it
C4_Witness ==
  \E h \in Handlers :
    /\ ret[h].op = "New"
    /\ ret[h].loadErr \in {"ErrNoRows", "ErrSessionExpired"}
    /\ ret[h].err = "nil"
    /\ sess[h].IsNew
    /\ Len(sess[h].ID) > 0

\* C5: New with a non-empty cookie that fails authentication returns an
\* is-new session with an empty value map and a non-nil error, and executes
\* no statement on the table.
C5_NewDecodeFailure ==
  [][\A h \in Handlers : \A c \in RequestCookies :
       (Get(h, c) /\ Len(c) > 0 /\ DecodeMulti(SessionName, c, codecs).err # "nil")
       => /\ sess'[h].IsNew
          /\ sess'[h].Values = EmptyMap
          /\ ret'[h].err # "nil"
          /\ ret'[h].stmt = "none"
          /\ ret'[h].loadErr = "none"
          /\ table' = table]_vars

\* New rejected a forged cookie while a live row with a payload was in the table
C5_Witness ==
  \E h \in Handlers :
    /\ ret[h].op = "New" /\ ret[h].err = "decode" /\ ret[h].stmt = "none"
    /\ sess[h].IsNew /\ Len(sess[h].ID) = 0
    /\ \E id \in DOMAIN table :
         table[id].expires >= now /\ Len(table[id].data) > EmptyGobSize

\* C6: one sweep pass on a working database removes exactly the expired rows
\* and the empty-and-stale rows, and leaves every other row as it was.
C6_SweepRemovesExpiredAndEmptyStale ==
  [][\A s \in Sweepers :
       (SweeperDeleteExpired(s) /\ ~dbClosed)
       => LET gone == ExpiredRows(table, now) \cup EmptyStaleRows(table, now)
          IN /\ DOMAIN table' = (DOMAIN table) \ gone
             /\ \A id \in DOMAIN table' : table'[id] = table[id]]_vars

\* C7: StopCleanup returns only after the sweeper it stops has exited, no
\* sweep pass of that sweeper starts afterwards, and a StopCleanup called on
\* a running sweeper eventually returns.
C7_SynchronousStop ==
  /\ [](\A s \in stopped : sw[s] = "exited")
  /\ [][\A s \in Sweepers :
          s \in stopped => ~(SweeperTick(s) \/ SweeperDeleteExpired(s))]_vars
  /\ (closer.pc = "sendQuit" /\ sw[closer.quit] \in {"select", "sweep", "log"})
     ~> (closer.pc = "idle" /\ closer.quit \in stopped)

\* StopCleanup has returned for a sweeper that had been started, and time
\* has moved on since
C7_Witness ==
  \E s \in stopped : sw[s] = "exited" /\ closes >= 1 /\ now = MaxTime

\* C8: Delete of a session with an empty identifier returns nil, executes no
\* statement and leaves the table as it is, while it clears the value map and
\* expires the response cookie; Remove of "" leaves the table as it is.
C8_DeleteEmptyIdNoStatement ==
  [][/\ \A h \in Handlers :
          (Delete(h) /\ Len(sess[h].ID) = 0)
          => /\ ret'[h].err = "nil"
             /\ ret'[h].stmt = "none"
             /\ table' = table
             /\ sess'[h].Values = EmptyMap
             /\ resp'[h] = [set |-> TRUE, value |-> <<>>, maxAge |-> -1]
     /\ Remove(<<>>) => table' = table]_vars

\* Delete ran on a session without identifier after the database handle was
\* closed, and still returned nil
C8_Witness ==
  \E h \in Handlers :
    /\ ret[h].op = "Delete" /\ ret[h].err = "nil" /\ ret[h].stmt = "none"
    /\ Len(sess[h].ID) = 0
    /\ resp[h].maxAge = -1
    /\ dbClosed
    /\ DOMAIN table # {}

\* C9: while a row exists, no New, Reload or Save changes its created column.
C9_CreatedImmutable ==
  [][(\E h \in Handlers :
        \/ \E c \in RequestCookies : Get(h, c)
        \/ Reload(h)
        \/ \E cm \in CookieMaxAges : cm >= 0 /\ Save(h, cm))
     => \A id \in (DOMAIN table) \cap (DOMAIN table') :
          table'[id].created = table[id].created]_vars

\* C10: after every successful Save the row's modified column holds the
\* time of that Save.
C10_ModifiedSetOnEverySave ==
  [][\A h \in Handlers : \A cm \in CookieMaxAges :
       (Save(h, cm) /\ cm >= 0 /\ ret'[h].err = "nil"
        /\ sess'[h].ID \in DOMAIN table')
       => table'[sess'[h].ID].modified = now]_vars

\* the sweeper goroutines that are in their loop
Running == {s \in Sweepers : sw[s] \in {"select", "sweep", "log"}}

\* C11: no sweep pass executes its statement on the database handle after
\* Close has closed it.
C11_NoSweepAfterDbClose ==
  [][\A s \in Sweepers : SweeperDeleteExpired(s) => ~dbClosed]_vars

\* C12: a second Close, called after a first Close has returned, never sits
\* in the stop handshake sending quit to a sweeper that has already exited
\* (a send nobody will ever receive).
C12_SecondCloseDoesNotBlock ==
  ~(closes >= 1 /\ closer.pc = "sendQuit" /\ sw[closer.quit] = "exited")

NegativeMaxAges == {cm \in CookieMaxAges : cm < 0}

\* C15: Save under a negative cookie max-age does what Delete does: it issues
\* no insert and no update, deletes the row of a non-empty identifier and
\* leaves every other row alone, empties the value map, sets the response
\* cookie to expire at once, and generates no identifier.
C15_NegativeMaxAgeSaveIsDelete ==
  [][\A h \in Handlers : \A cm \in NegativeMaxAges :
       Save(h, cm) =>
         /\ ret'[h].stmt \in {"none", "delete"}
         /\ (ret'[h].stmt = "delete") = (Len(sess[h].ID) > 0)
         /\ ret'[h].err = (IF Len(sess[h].ID) > 0 /\ dbClosed
                           THEN "closed" ELSE "nil")
         /\ table' = (IF dbClosed THEN table ELSE DeleteRow(table, sess[h].ID))
         /\ sess'[h].Values = EmptyMap
         /\ sess'[h].ID = sess[h].ID
         /\ ~ret'[h].gen /\ nextId' = nextId
         /\ resp'[h] = [set |-> TRUE, value |-> <<>>, maxAge |-> -1]]_vars

\* a Save under a negative max-age has deleted the row of a stored session
C15_Witness ==
  \E h \in Handlers :
    /\ ret[h].op = "Save" /\ ret[h].cm < 0
    /\ ret[h].stmt = "delete" /\ ret[h].err = "nil"
    /\ Len(sess[h].ID) > 0 /\ sess[h].ID \notin DOMAIN table
    /\ sess[h].ID \in jar
    /\ resp[h].maxAge = -1

\* C18: a Save (non-negative max-age) whose serialization succeeds generates
\* an identifier and inserts when the identifier is empty, inserts under the
\* same identifier when it is non-empty and IsNew is set, and updates under
\* the same identifier when IsNew is unset; and no Save, Reload or Delete
\* changes a non-empty identifier.
C18_RoutingKeepsIdentifier ==
  [][\A h \in Handlers :
       /\ \A cm \in CookieMaxAges :
            (Save(h, cm) /\ cm >= 0 /\ ret'[h].stmt # "none") =>
              /\ Len(sess[h].ID) = 0 =>
                   /\ ret'[h].gen /\ ret'[h].stmt = "insert"
                   /\ sess'[h].ID = <<nextId>> /\ nextId' = nextId + 1
                   /\ sess'[h].ID \notin DOMAIN table
              /\ (Len(sess[h].ID) > 0 /\ sess[h].IsNew) =>
                   ~ret'[h].gen /\ ret'[h].stmt = "insert" /\ nextId' = nextId
              /\ (Len(sess[h].ID) > 0 /\ ~sess[h].IsNew) =>
                   ~ret'[h].gen /\ ret'[h].stmt = "update" /\ nextId' = nextId
              /\ \A id \in DOMAIN table' :
                   id # sess'[h].ID => id \in DOMAIN table /\ table'[id] = table[id]
       /\ (/\ Len(sess[h].ID) > 0
           /\ \/ \E cm \in CookieMaxAges : Save(h, cm)
              \/ Reload(h)
              \/ Delete(h))
          => sess'[h].ID = sess[h].ID]_vars

\* a session that kept IsNew and its identifier was saved again by an insert
\* under that identifier, with no identifier generated
C18_Witness ==
  \E h \in Handlers :
    /\ ret[h].op = "Save" /\ ret[h].cm >= 0 /\ ret[h].err = "nil"
    /\ ret[h].stmt = "insert" /\ ~ret[h].gen
    /\ sess[h].IsNew /\ Len(sess[h].ID) > 0
    /\ sess[h].ID \in DOMAIN table

\* C19: whenever Save (non-negative max-age) returns success, a row with the
\* session's identifier exists in the table once the write has completed.
C19_SuccessfulSaveLeavesRow ==
  [][\A h \in Handlers : \A cm \in CookieMaxAges :
       (Save(h, cm) /\ cm >= 0 /\ ret'[h].err = "nil")
       => sess'[h].ID \in DOMAIN table']_vars

\* the payload of a row holds none of the three metadata keys
PayloadKeys(row) == {row.data[i][1] : i \in 2..Len(row.data)}

\* C20: no row's payload holds a metadata key; after every successful insert
\* or update the in-memory map holds none of the three keys; after every
\* successful load it holds all three, with the values of the row's columns.
C20_MetadataKeysNeverStored ==
  /\ [](\A id \in DOMAIN table : PayloadKeys(table[id]) \cap MetaKeys = {})
  /\ [][\A h \in Handlers :
          /\ \A cm \in CookieMaxAges :
               (Save(h, cm) /\ cm >= 0 /\ ret'[h].stmt \in {"insert", "update"}
                /\ ret'[h].err = "nil")
               => (DOMAIN sess'[h].Values) \cap MetaKeys = {}
          /\ ((Reload(h) \/ \E c \in RequestCookies : Get(h, c))
              /\ ret'[h].loadErr = "nil")
             => /\ MetaKeys \subseteq DOMAIN sess'[h].Values
                /\ sess'[h].Values[kCreated] = table[sess'[h].ID].created
                /\ sess'[h].Values[kModified] = table[sess'[h].ID].modified
                /\ sess'[h].Values[kExpires] = table[sess'[h].ID].expires]_vars

\* a loaded session carrying the three keys and a user entry was saved: the
\* keys are gone from the map and the stored payload holds the user entry only
C20_Witness ==
  \E h \in Handlers :
    /\ ret[h].op = "Save" /\ ret[h].stmt = "update" /\ ret[h].err = "nil"
    /\ sess[h].ID \in DOMAIN table
    /\ DOMAIN sess[h].Values = UserKeys
    /\ PayloadKeys(table[sess[h].ID]) = UserKeys

\* C14: a sweep pass that returns an error leaves the sweeper in its loop,
\* logs, and comes back to the select where the next tick starts a pass; the
\* error reaches no caller of a store operation; and a sweeper leaves its
\* loop only by receiving the quit signal of StopCleanup.
C14_SweepErrorKeepsSweeperRunning ==
  [][\A s \in Sweepers :
       /\ (SweeperDeleteExpired(s) /\ deleteExpired(table, now, dbClosed).err # "nil")
          => /\ sw'[s] = "log"
             /\ ret' = ret /\ resp' = resp
       /\ SweeperLog(s) => (sw'[s] = "select" /\ ret' = ret /\ resp' = resp)
       /\ (sw[s] \in {"select", "sweep", "log"}
           /\ sw'[s] \notin {"select", "sweep", "log"})
          => (closer.pc = "sendQuit" /\ closer.quit = s /\ sw[s] = "select")]_vars

\* a sweep pass has failed on the closed handle and the sweeper is in its
\* loop, about to log the error, with no quit signal sent to it
C14_Witness ==
  \E s \in Sweepers :
    /\ sw[s] = "log" /\ dbClosed
    /\ closer.pc = "idle" /\ s \notin stopped
    /\ \A h \in Handlers : ret[h].err = "nil"

\* the error a Save under a non-negative max-age returns: that of Serialize,
\* else that of the write statement, else that of EncodeMulti, else nil
SaveError(s) ==
  IF Serialize(StripMeta(s.Values)).err # "nil"
  THEN Serialize(StripMeta(s.Values)).err
  ELSE IF dbClosed THEN "closed"
  ELSE IF codecs = 0 THEN "encode"
  ELSE "nil"

\* C16: a Save (non-negative max-age) that returns an error returns the
\* error of the step that failed and leaves the response cookie as it was;
\* the cookie is set only by a Save whose row write and re-encoding both
\* succeeded, and then to the token of the session's identifier.
C16_FailedSaveLeavesCookie ==
  [][\A h \in Handlers : \A cm \in CookieMaxAges :
       (Save(h, cm) /\ cm >= 0) =>
         /\ ret'[h].err = SaveError(sess[h])
         /\ ret'[h].err # "nil" => (resp' = resp /\ jar' = jar)
         /\ ret'[h].err = "nil" =>
              /\ ret'[h].stmt \in {"insert", "update"}
              /\ resp'[h] = [set |-> TRUE, maxAge |-> 0,
                             value |-> Token(SessionName, sess'[h].ID)]]_vars

\* a Save wrote its row, failed to re-encode the identifier, returned that
\* error and set no cookie
C16_Witness ==
  \E h \in Handlers :
    /\ ret[h].op = "Save" /\ ret[h].cm >= 0
    /\ ret[h].err = "encode" /\ ret[h].stmt = "insert"
    /\ sess[h].ID \in DOMAIN table
    /\ ~resp[h].set

\* C17: every session in memory with a non-empty identifier has had a row
\* with that identifier written successfully at least once.
C17_IdentifierImpliesPersisted ==
  \A h \in Handlers : Len(sess[h].ID) > 0 => sess[h].ID \in persisted

====
